---- MODULE Spec2Model ----
(***************************************************************************)
(* Tariff categorisation and period merging (DaniBVN/Tarif).               *)
(*                                                                         *)
(* Texts and patterns are sequences of one-character strings over a small  *)
(* alphabet that has an upper/lower case pair.  A label is a record        *)
(* [text, winners, matches]: a category name or a fixed literal has its    *)
(* text and no winners; a tie diagnostic carries the tied names and the    *)
(* matched patterns.                                                       *)
(***************************************************************************)
EXTENDS Integers, Sequences, FiniteSets, TLC

VARIABLES
    pc,                 \* which routine runs and where it stands
    row,                \* the record handed to the categorizer
    category_patterns,  \* find_category: ordered category -> pattern list
    priority_columns,   \* find_category: columns in the order they are tried
    result,             \* the label find_category returned
    Kundetype,          \* df['Kundetype'] of the row
    Tariftype,          \* df['Tariftype'] of the row
    registry,           \* classify: the pattern registry
    fieldOrder,         \* classify: the field evaluation order
    fallback,           \* classify: the fallback label, None when not configured
    cs,                 \* classify: the CandidateSet of the running call
    fieldIndex,         \* classify: position in fieldOrder
    label,              \* classify: the label returned
    literal,            \* configuration: the entries of a patterns dict as written
    priority,           \* configuration: the priority list written beside it
    patterns_dict,      \* configuration: the dict object the literal evaluates to
    ConfigError,        \* configuration: whether loading raised
    periods,            \* merge: the periods of one (group key, price vector) sub-group
    merged,             \* merge: the output periods
    records,            \* reduction: the periods of a batch, each with group key and prices
    reduced,            \* reduction: the output rows
    caller,             \* service: the routine that calls fetch_datahub_pricelist
    use_cached,         \* service: the use_cached argument
    parquet_file,       \* service: the file at parquet_path
    parquet_before,     \* service: that file as it was when the run started
    csv_file,           \* service: the file at data_dir/RAW_DATA_FILENAME.csv
    api_requests,       \* service: number of requests sent to the API
    df,                 \* service: the dataset fetch_datahub_pricelist returned
    raised,             \* service: the exception that left the running routine
    pipeline_result,    \* service: what enhanced_categorize_tariff_data returned
    failed,             \* service: the step of enhanced_categorize_tariff_data that failed
    called,             \* service: the routines called so far
    printed,            \* service: the headline messages printed so far
    notes_csv           \* service: whether notes_by_chargeowner.csv was written

findVars == <<category_patterns, priority_columns, result, Kundetype, Tariftype>>
classifyVars == <<registry, fieldOrder, fallback, cs, fieldIndex, label>>

configVars == <<literal, priority, patterns_dict, ConfigError>>
mergeVars == <<periods, merged>>
reduceVars == <<records, reduced>>
fileVars == <<parquet_file, parquet_before, csv_file>>
serviceVars == <<caller, use_cached, fileVars, api_requests, df, raised,
                 pipeline_result, failed, called, printed, notes_csv>>

vars == <<pc, row, findVars, classifyVars, configVars, mergeVars, reduceVars, serviceVars>>

-----------------------------------------------------------------------------
(* Bounds *)

MaxLen == 2
MaxEntries == 2
MaxPeriods == 3
MaxTime == 4

-----------------------------------------------------------------------------
(* Text *)

Chars == {"a", "A", "b"}

RECURSIVE SeqsUpTo(_, _)
SeqsUpTo(S, n) ==
    IF n = 0 THEN {<<>>}
    ELSE LET shorter == SeqsUpTo(S, n - 1)
         IN  shorter \cup {Append(s, c) : s \in {t \in shorter : Len(t) = n - 1}, c \in S}

Texts == SeqsUpTo(Chars, MaxLen)

\* the second text column is kept to one character
ShortTexts == SeqsUpTo(Chars, 1)

\* pandas NaN / None: a value that is no text
NaN == <<"NaN">>

notna(v) == v # NaN

LowerChar(c) == IF c = "A" THEN "a" ELSE c

\* str.lower()
lower(s) == [i \in 1..Len(s) |-> LowerChar(s[i])]

\* Python's `p in t` on strings
IsSubstring(p, t) ==
    \E i \in 0..(Len(t) - Len(p)) : SubSeq(t, i + 1, i + Len(p)) = p

-----------------------------------------------------------------------------
(* Labels *)

Label(s) == [text |-> s, winners |-> {}, matches |-> <<>>]

Uncategorized == Label("Uncategorized")

\* no label (Python's None)
None == Label("None")

-----------------------------------------------------------------------------
(* find_category *)

\* line 75: the column is tried only when the row has it and it is not NaN
ColumnPresent(r, col) == col \in DOMAIN r /\ notna(r[col])

\* lines 76-78: the text is lowercased, the pattern is used as declared
PatternMatches(pattern, text) == IsSubstring(pattern, lower(text))

\* faulty variant: the column loop stops after the first column the row has
CategoryMatchesFirstPresentColumn(r, patterns, columns) ==
    \E i \in 1..Len(columns) :
        /\ ColumnPresent(r, columns[i])
        /\ \A h \in 1..(i - 1) : ~ColumnPresent(r, columns[h])
        /\ \E j \in 1..Len(patterns) : PatternMatches(patterns[j], r[columns[i]])

\* lines 74-79 for one category: some tried column holds some pattern
CategoryMatches(r, patterns, columns) ==
    \E i \in 1..Len(columns) :
        /\ ColumnPresent(r, columns[i])
        /\ \E j \in 1..Len(patterns) : PatternMatches(patterns[j], r[columns[i]])

\* lines 73-81: the first category, in declaration order, that matches on any
\* column; "Uncategorized" when none does
find_category(r, patterns_by_category, columns) ==
    LET hits == {k \in 1..Len(patterns_by_category) :
                    CategoryMatches(r, patterns_by_category[k].patterns, columns)}
    IN  IF hits = {} THEN Uncategorized
        ELSE Label(patterns_by_category[CHOOSE k \in hits : \A h \in hits : k <= h].name)

-----------------------------------------------------------------------------
(* enhanced_categorize_tariff_data: the per-row part *)

\* the registries of categorize_tariffs.py, cut down to the model's alphabet;
\* like the originals they hold lowercase patterns only
kundetype_patterns ==
    << [name |-> "Ahoj", patterns |-> << <<"a", "b">>, <<"a", "a">> >>],
       [name |-> "C",    patterns |-> << <<"b">> >>] >>

tariftype_patterns ==
    << [name |-> "tidsdifferentieret", patterns |-> << <<"b", "a">> >>],
       [name |-> "abonnement",         patterns |-> << <<"a">>, <<"a", "b">> >>] >>

\* the default of find_category's priority_columns
default_priority_columns == <<"ChargeTypeCode", "Note", "Description", "ChargeType">>

required_columns == {"ChargeType", "ChargeTypeCode", "Note", "Description"}

\* lines 119-121: astype(str) turns NaN into 'nan', replace('nan', '') into ''
ConvertTextColumns(r) ==
    [col \in DOMAIN r |->
        IF col \in required_columns /\ r[col] = NaN THEN <<>> ELSE r[col]]

-----------------------------------------------------------------------------
(* PatternRegistry and Categorizer as the design describes them (sections    *)
(* 4.1 and 4.2): a registry is an ordered list of [name, fields], fields a   *)
(* map from some field names to pattern lists.                               *)

Range(s) == {s[i] : i \in 1..Len(s)}

Names(reg) == {reg[k].name : k \in 1..Len(reg)}

\* 4.1: the declared list, the empty list when the field is undeclared
patternsFor(category, field) ==
    IF field \in DOMAIN category.fields THEN category.fields[field] ELSE <<>>

\* faulty variant: only a declared empty list abstains, an undeclared field does not
abstainsDeclaredEmpty(category, field) ==
    field \in DOMAIN category.fields /\ category.fields[field] = <<>>

abstains(category, field) == patternsFor(category, field) = <<>>

\* 4.2 step 2a: missing, null or empty
blank(record, field) ==
    \/ field \notin DOMAIN record
    \/ record[field] = NaN
    \/ record[field] = <<>>

\* 4.2 step 2b: every declared pattern, lowercased, that is a substring of the
\* lowercased text, in declaration order
matchedPatterns(category, field, text) ==
    SelectSeq(patternsFor(category, field), LAMBDA p : IsSubstring(lower(p), lower(text)))

RECURSIVE Concat(_, _)
Concat(f, n) == IF n = 0 THEN <<>> ELSE Concat(f, n - 1) \o f[n]

\* 4.2 step 1
InitialCandidateSet(reg) ==
    [candidates |-> Names(reg),
     matchCounts |-> [n \in Names(reg) |-> 0],
     allMatchedPatterns |-> <<>>,
     returned |-> None]

TieLabel(winners, matched) ==
    [text |-> "Uncategorized - Tie between: ", winners |-> winners, matches |-> matched]

NoMatches == Label("Uncategorized - No matches")

\* 4.2 steps 2a-2d for one field
ProcessField(cset, record, reg, field) ==
    IF blank(record, field) THEN cset
    ELSE
      LET live == {k \in 1..Len(reg) : reg[k].name \in cset.candidates}
          hit == [k \in 1..Len(reg) |->
                    IF k \in live THEN matchedPatterns(reg[k], field, record[field])
                    ELSE <<>>]
          anyMatchThisField == \E k \in live : hit[k] # <<>>
          retained == {reg[k].name : k \in
                          {j \in live : abstains(reg[j], field) \/ hit[j] # <<>>}}
          remaining == IF anyMatchThisField THEN retained ELSE cset.candidates
      IN  [candidates |-> remaining,
           matchCounts |-> [n \in DOMAIN cset.matchCounts |->
                cset.matchCounts[n]
                  + Len(Concat([k \in 1..Len(reg) |->
                                   IF reg[k].name = n THEN hit[k] ELSE <<>>],
                               Len(reg)))],
           allMatchedPatterns |-> cset.allMatchedPatterns \o Concat(hit, Len(reg)),
           returned |-> IF anyMatchThisField /\ Cardinality(remaining) = 1
                        THEN Label(CHOOSE n \in remaining : TRUE)
                        ELSE None]

\* 4.2 step 2: the fields in order, stopping at the first early return
RECURSIVE Cascade(_, _, _, _, _)
Cascade(cset, record, reg, order, i) ==
    IF i > Len(order) \/ cset.returned # None THEN cset
    ELSE Cascade(ProcessField(cset, record, reg, order[i]),
                 record, reg, order, i + 1)

\* 4.2 step 3
Winners(cset) ==
    {n \in cset.candidates : \A m \in cset.candidates : cset.matchCounts[m] <= cset.matchCounts[n]}

Conclude(cset, fb) ==
    IF cset.allMatchedPatterns = <<>>
    THEN (IF fb # None THEN fb ELSE NoMatches)
    ELSE IF Cardinality(cset.candidates) = 1
    THEN Label(CHOOSE n \in cset.candidates : TRUE)
    ELSE IF Cardinality(Winners(cset)) = 1
    THEN Label(CHOOSE n \in Winners(cset) : TRUE)
    ELSE TieLabel(Winners(cset), cset.allMatchedPatterns)

-----------------------------------------------------------------------------
(* Inputs *)

RowColumns == {"Note", "Description"}

Rows ==
    {r \in [RowColumns -> Texts \cup {NaN}] : r["Description"] \in ShortTexts \cup {NaN}}

PatternLists ==
    { <<>>, << <<"a">> >>, << <<"b">> >>, << <<"A">> >>, << <<"a">>, <<"b">> >> }

CategoryNames == {"X", "Y"}

\* a dict of two categories, in either declaration order
FlatRegistries ==
    { << [name |-> n1, patterns |-> p1], [name |-> n2, patterns |-> p2] >> :
        n1 \in CategoryNames, n2 \in CategoryNames, p1 \in PatternLists, p2 \in PatternLists }

ColumnOrders == { default_priority_columns, <<"Description", "Note">> }

-----------------------------------------------------------------------------
(* The categorizer of categorize_tariffs.py as a state machine *)

ClassifyIdle ==
    /\ registry = <<>>
    /\ fieldOrder = <<>>
    /\ fallback = None
    /\ cs = InitialCandidateSet(<<>>)
    /\ fieldIndex = 0
    /\ label = None

ConfigIdle ==
    /\ literal = <<>>
    /\ priority = <<>>
    /\ patterns_dict = <<>>
    /\ ConfigError = FALSE

MergeIdle ==
    /\ periods = <<>>
    /\ merged = <<>>

ReduceIdle ==
    /\ records = <<>>
    /\ reduced = {}

ServiceIdle ==
    /\ caller = "none"
    /\ use_cached = FALSE
    /\ parquet_file = "absent"
    /\ parquet_before = "absent"
    /\ csv_file = "absent"
    /\ api_requests = 0
    /\ df = "unset"
    /\ raised = "none"
    /\ pipeline_result = {}
    /\ failed = "none"
    /\ called = {}
    /\ printed = {}
    /\ notes_csv = FALSE

Init ==
    /\ ClassifyIdle
    /\ ConfigIdle
    /\ MergeIdle
    /\ ReduceIdle
    /\ ServiceIdle
    /\ row \in Rows
    /\ result = None
    /\ Kundetype = None
    /\ Tariftype = None
    /\ \/ /\ pc = "call"
          /\ category_patterns \in {reg \in FlatRegistries : reg[1].name # reg[2].name}
          /\ priority_columns \in ColumnOrders
       \/ /\ pc = "csv"
          /\ category_patterns = <<>>
          /\ priority_columns = default_priority_columns

\* a call find_category(row, category_patterns, priority_columns)
FindCategory ==
    /\ pc = "call"
    /\ result' = find_category(row, category_patterns, priority_columns)
    /\ pc' = "returned"
    /\ UNCHANGED <<row, category_patterns, priority_columns, Kundetype, Tariftype, classifyVars, configVars, mergeVars, reduceVars, serviceVars>>

\* lines 118-121
Convert ==
    /\ pc = "csv"
    /\ row' = ConvertTextColumns(row)
    /\ pc' = "converted"
    /\ UNCHANGED <<category_patterns, priority_columns, result, Kundetype, Tariftype, classifyVars, configVars, mergeVars, reduceVars, serviceVars>>

\* lines 125-128
ApplyKundetype ==
    /\ pc = "converted"
    /\ Kundetype' = find_category(row, kundetype_patterns, default_priority_columns)
    /\ pc' = "kundetype"
    /\ UNCHANGED <<row, category_patterns, priority_columns, result, Tariftype, classifyVars, configVars, mergeVars, reduceVars, serviceVars>>

\* lines 129-132
ApplyTariftype ==
    /\ pc = "kundetype"
    /\ Tariftype' = find_category(row, tariftype_patterns, default_priority_columns)
    /\ pc' = "categorized"
    /\ UNCHANGED <<row, category_patterns, priority_columns, result, Kundetype, classifyVars, configVars, mergeVars, reduceVars, serviceVars>>

Next == FindCategory \/ Convert \/ ApplyKundetype \/ ApplyTariftype

Spec == Init /\ [][Next]_vars

\* the same machine called only with registries whose patterns are declared
\* in lowercase, as the registries of categorize_tariffs.py are
Lowercase(patterns_by_category) ==
    \A k \in 1..Len(patterns_by_category) :
        \A j \in 1..Len(patterns_by_category[k].patterns) :
            LET p == patterns_by_category[k].patterns[j] IN lower(p) = p

InitLowercase == Init /\ Lowercase(category_patterns)

SpecLowercase == InitLowercase /\ [][Next]_vars

-----------------------------------------------------------------------------
(* The design's classify, one field per step *)

Fields == {"Note", "Description"}

DeclaredLists == { <<>>, << <<"a">> >>, << <<"A">>, <<"b">> >> }

\* a category declares a list for some of the fields and leaves the rest out
FieldMaps == UNION {[D -> DeclaredLists] : D \in SUBSET Fields}

\* the declarations a third category is drawn from
ThirdMaps == { [Note |-> << <<"b">> >>], [Description |-> << <<"a">> >>] }

Registries ==
    { << [name |-> "X", fields |-> fx], [name |-> "Y", fields |-> fy] >> :
        fx \in FieldMaps, fy \in FieldMaps }
    \cup
    { << [name |-> "X", fields |-> fx], [name |-> "Y", fields |-> fy],
         [name |-> "Z", fields |-> fz] >> :
        fx \in FieldMaps, fy \in FieldMaps, fz \in ThirdMaps }

\* kundetype_priority; the rows of the model carry no ChargeTypeCode
kundetype_priority == <<"Note", "Description", "ChargeTypeCode">>

bruger_fallback == Label("Forbrug")

FindIdle ==
    /\ category_patterns = <<>>
    /\ priority_columns = <<>>
    /\ result = None
    /\ Kundetype = None
    /\ Tariftype = None

InitClassify ==
    /\ FindIdle
    /\ ConfigIdle
    /\ MergeIdle
    /\ ReduceIdle
    /\ ServiceIdle
    /\ pc = "classify"
    /\ row \in Rows
    /\ registry \in Registries
    /\ fieldOrder = kundetype_priority
    /\ fallback \in {None, bruger_fallback}
    /\ cs = InitialCandidateSet(registry)
    /\ fieldIndex = 1
    /\ label = None

\* 4.2 step 2 for the next field of the order
ProcessNextField ==
    /\ pc = "classify"
    /\ fieldIndex <= Len(fieldOrder)
    /\ cs' = ProcessField(cs, row, registry, fieldOrder[fieldIndex])
    /\ fieldIndex' = fieldIndex + 1
    /\ IF cs'.returned # None
       THEN label' = cs'.returned /\ pc' = "classified"
       ELSE UNCHANGED <<label, pc>>
    /\ UNCHANGED <<row, findVars, registry, fieldOrder, fallback, configVars, mergeVars, reduceVars, serviceVars>>

\* 4.2 step 3
FieldsExhausted ==
    /\ pc = "classify"
    /\ fieldIndex > Len(fieldOrder)
    /\ label' = Conclude(cs, fallback)
    /\ pc' = "classified"
    /\ UNCHANGED <<row, findVars, registry, fieldOrder, fallback, cs, fieldIndex,
                   configVars, mergeVars, reduceVars, serviceVars>>

NextClassify == ProcessNextField \/ FieldsExhausted

SpecClassify == InitClassify /\ [][NextClassify]_vars

\* C5: while a field is processed, a candidate that declares no patterns for
\* it (the field undeclared, or its list empty) stays a candidate and its match
\* count does not change, whatever the other categories do on that field.
C5_AbstainerKept ==
    [][(pc = "classify" /\ fieldIndex <= Len(fieldOrder)) =>
        \A k \in 1..Len(registry) :
            LET c == registry[k]
                f == fieldOrder[fieldIndex]
            IN  (/\ c.name \in cs.candidates
                 /\ (f \notin DOMAIN c.fields \/ c.fields[f] = <<>>))
                => (/\ c.name \in cs'.candidates
                    /\ cs'.matchCounts[c.name] = cs.matchCounts[c.name])]_vars

\* a field was just processed on which one category matched and another was
\* eliminated, while a third, not declaring the field at all, stayed a candidate
C5_Witness ==
    /\ fieldIndex > 1
    /\ LET f == fieldOrder[fieldIndex - 1]
       IN  /\ ~blank(row, f)
           /\ \E k \in 1..Len(registry), j \in 1..Len(registry), m \in 1..Len(registry) :
                 /\ f \notin DOMAIN registry[k].fields
                 /\ registry[k].name \in cs.candidates
                 /\ matchedPatterns(registry[j], f, row[f]) # <<>>
                 /\ cs.matchCounts[registry[j].name] > 0
                 /\ patternsFor(registry[m], f) # <<>>
                 /\ registry[m].name \notin cs.candidates

-----------------------------------------------------------------------------
(* Claims about the categorizer, stated for find_category *)

\* a find_category registry seen as a design registry: every category declares
\* its one pattern list for every column that is tried
AsRegistry(patterns_by_category, columns) ==
    [k \in 1..Len(patterns_by_category) |->
        [name |-> patterns_by_category[k].name,
         fields |-> [f \in Range(columns) |-> patterns_by_category[k].patterns]]]

\* the candidate set the design's cascade ends its field loop with, on the call's inputs
CascadeOfCall ==
    Cascade(InitialCandidateSet(AsRegistry(category_patterns, priority_columns)),
            row, AsRegistry(category_patterns, priority_columns), priority_columns, 1)

\* C1: for every category, tried column and declared pattern of a call, the
\* categorizer's match test is true exactly when the lowercased pattern is a
\* substring of the lowercased field text (so uppercase patterns match too).
C1_CaseInsensitiveSubstring ==
    pc = "returned" =>
        \A k \in 1..Len(category_patterns), i \in 1..Len(priority_columns) :
            ColumnPresent(row, priority_columns[i]) =>
                \A j \in 1..Len(category_patterns[k].patterns) :
                    LET p == category_patterns[k].patterns[j]
                        text == row[priority_columns[i]]
                    IN  PatternMatches(p, text) <=> IsSubstring(lower(p), lower(text))

\* C2: when the cascade stops at a field because a category matched on it and
\* exactly one candidate remained, that candidate is the label, whatever the
\* later fields hold.
C2_ReturnsAtFirstDecidingField ==
    (pc = "returned" /\ CascadeOfCall.returned # None) => result = CascadeOfCall.returned

\* C3: a category that was eliminated on some field of the order (it declared
\* patterns, matched none, and another category matched) is never the label.
C3_EliminatedNeverReturned ==
    pc = "returned" =>
        result.text \notin (Names(category_patterns) \ CascadeOfCall.candidates)

\* the row with NaN in every column whose text no category's pattern matches
BlankUnmatched(r, patterns_by_category, columns) ==
    [col \in DOMAIN r |->
        IF /\ ColumnPresent(r, col)
           /\ \A k \in 1..Len(patterns_by_category) :
                 ~CategoryMatches(r, patterns_by_category[k].patterns, <<col>>)
        THEN NaN ELSE r[col]]

\* C4: a non-blank field on which no category matches any pattern removes no
\* category: the label is the one the row gets with those fields blank.
C4_UnmatchedFieldChangesNothing ==
    pc = "returned" =>
        result = find_category(BlankUnmatched(row, category_patterns, priority_columns),
                               category_patterns, priority_columns)

C4_Witness ==
    /\ pc = "returned"
    /\ result # Uncategorized
    /\ \E col \in DOMAIN row :
          /\ ColumnPresent(row, col) /\ row[col] # <<>>
          /\ BlankUnmatched(row, category_patterns, priority_columns)[col] = NaN

\* C6: when the fields are exhausted with two or more candidates and some
\* pattern matched, the label is the candidate with the strictly highest match
\* count, or the tie diagnostic naming all tied candidates.
C6_HighestCountOrTie ==
    (/\ pc = "returned"
     /\ CascadeOfCall.returned = None
     /\ Cardinality(CascadeOfCall.candidates) >= 2
     /\ CascadeOfCall.allMatchedPatterns # <<>>)
    => result = Conclude(CascadeOfCall, None)

\* C7: when no pattern of any category matches on any field, the label is
\* the fallback if one is supplied (find_category takes none) and otherwise
\* exactly 'Uncategorized - No matches'.
C7_NoMatchLabel ==
    (pc = "returned" /\ CascadeOfCall.allMatchedPatterns = <<>>) => result = NoMatches

\* the label shapes section 6 allows for a dimension classified with `reg`
AllowedLabel(l, reg, fb) ==
    \/ l.text \in Names(reg) /\ l.winners = {}
    \/ fb # None /\ l = fb
    \/ l = NoMatches
    \/ l.text = "Uncategorized - Tie between: " /\ l.winners \subseteq Names(reg)

\* C8: every label written to a classification column is a declared category
\* name, the fallback, 'Uncategorized - No matches' or a tie diagnostic.
C8_LabelShapes ==
    /\ pc \in {"kundetype", "categorized"} => AllowedLabel(Kundetype, kundetype_patterns, None)
    /\ pc = "categorized" => AllowedLabel(Tariftype, tariftype_patterns, None)

-----------------------------------------------------------------------------
(* categorization_config.py: a patterns dict and its priority list.  The     *)
(* module builds each registry by evaluating a dict literal; nothing else    *)
(* runs when the configuration is loaded.                                     *)

ConfigFields == {"Note", "ChargeTypeCode", "ChargeType"}

ConfigNames == {"E01", "E02", "D01"}

\* one `name: {field: [...], ...}` entry as written in a literal
ConfigEntries ==
    { [name |-> n, fields |-> [f \in D |-> << <<"a">> >>]] :
        n \in ConfigNames, D \in SUBSET ConfigFields }

DictLiterals == SeqsUpTo(ConfigEntries, MaxEntries)

afregning_priority == <<"Note", "Description", "ChargeTypeCode">>

\* the afregning literal: which fields each category declares
afregning_patterns ==
    << [name |-> "E01", fields |-> [f \in {"Note", "Description", "ChargeType"} |-> << <<"a">> >>]],
       [name |-> "E02", fields |-> [f \in {"Note", "Description", "ChargeTypeCode"} |->
                                        IF f = "ChargeTypeCode" THEN <<>> ELSE << <<"a">> >>]],
       [name |-> "D01", fields |-> [f \in {"Note", "Description", "ChargeTypeCode"} |->
                                        IF f = "ChargeTypeCode" THEN <<>> ELSE << <<"b">> >>]] >>

\* Python's evaluation of a dict literal: a repeated key keeps its first
\* position and takes the last value; no key or value is checked
RECURSIVE DictOf(_)
DictOf(entries) ==
    IF entries = <<>> THEN <<>>
    ELSE LET d == DictOf(SubSeq(entries, 1, Len(entries) - 1))
             e == entries[Len(entries)]
         IN  IF \E k \in 1..Len(d) : d[k].name = e.name
             THEN [k \in 1..Len(d) |-> IF d[k].name = e.name THEN e ELSE d[k]]
             ELSE Append(d, e)

InitConfig ==
    /\ FindIdle
    /\ ClassifyIdle
    /\ MergeIdle
    /\ ReduceIdle
    /\ ServiceIdle
    /\ row = <<>>
    /\ pc = "config"
    /\ literal \in DictLiterals \cup {afregning_patterns}
    /\ priority = afregning_priority
    /\ patterns_dict = <<>>
    /\ ConfigError = FALSE

\* the module is imported: the literal is evaluated and bound
LoadConfig ==
    /\ pc = "config"
    /\ patterns_dict' = DictOf(literal)
    /\ ConfigError' = FALSE
    /\ pc' = "loaded"
    /\ UNCHANGED <<row, findVars, classifyVars, literal, priority, mergeVars, reduceVars, serviceVars>>

NextConfig == LoadConfig

SpecConfig == InitConfig /\ [][NextConfig]_vars

DuplicateName(entries) ==
    \E i \in 1..Len(entries), j \in 1..Len(entries) : i < j /\ entries[i].name = entries[j].name

FieldOutsideOrder(entries, order) ==
    \E i \in 1..Len(entries) : \E f \in DOMAIN entries[i].fields : f \notin Range(order)

\* C9: building a registry raises ConfigError when a category name is written
\* twice or a category declares a field outside the evaluation order, so a
\* registry that loaded has unique names and only fields of its order.
C9_ConfigErrorOnInvalid ==
    pc = "loaded" =>
        /\ (DuplicateName(literal) \/ FieldOutsideOrder(literal, priority)) => ConfigError
        /\ ~ConfigError =>
              (~DuplicateName(patterns_dict) /\ ~FieldOutsideOrder(patterns_dict, priority))

-----------------------------------------------------------------------------
(* IntervalMerger as the design describes it (section 4.4).  A period is     *)
(* [start, end) over integer instants; the periods handed to merge share one *)
(* group key and one price vector.                                            *)

Intervals ==
    {p \in [start : 0..MaxTime, end : 0..MaxTime] : p.start < p.end}

\* step 1: start ascending, ties by end descending
ComesBefore(p, q) == p.start < q.start \/ (p.start = q.start /\ p.end >= q.end)

RECURSIVE SortPeriods(_)
SortPeriods(ps) ==
    IF ps = <<>> THEN <<>>
    ELSE LET rest == SortPeriods(Tail(ps))
             p == Head(ps)
             k == Cardinality({i \in 1..Len(rest) : ComesBefore(rest[i], p)})
         IN  SubSeq(rest, 1, k) \o <<p>> \o SubSeq(rest, k + 1, Len(rest))

\* faulty variant (the superseded price-only scan): no gap test, every period extends the run
startsNewRunNoGapTest(sorted, i) == i = 1

\* step 2: the first period, or a strict gap after the previous period's end
startsNewRun(sorted, i) == i = 1 \/ sorted[i].start > sorted[i - 1].end

\* step 3: the running count of new-run flags
runId(sorted, i) == Cardinality({j \in 1..i : startsNewRun(sorted, j)})

MinOf(S) == CHOOSE x \in S : \A y \in S : x <= y
MaxOf(S) == CHOOSE x \in S : \A y \in S : y <= x

\* steps 1-4
merge(ps) ==
    LET sorted == SortPeriods(ps)
        runs == IF sorted = <<>> THEN 0 ELSE runId(sorted, Len(sorted))
    IN  [r \in 1..runs |->
            LET members == {i \in 1..Len(sorted) : runId(sorted, i) = r}
            IN  [start |-> MinOf({sorted[i].start : i \in members}),
                 end |-> MaxOf({sorted[i].end : i \in members}),
                 mergedCount |-> Cardinality(members)]]

InitMerge ==
    /\ FindIdle
    /\ ClassifyIdle
    /\ ConfigIdle
    /\ ReduceIdle
    /\ ServiceIdle
    /\ row = <<>>
    /\ pc = "merge"
    /\ periods \in SeqsUpTo(Intervals, MaxPeriods)
    /\ merged = <<>>

Merge ==
    /\ pc = "merge"
    /\ merged' = merge(periods)
    /\ pc' = "merged"
    /\ UNCHANGED <<row, findVars, classifyVars, configVars, periods, reduceVars, serviceVars>>

NextMerge == Merge

SpecMerge == InitMerge /\ [][NextMerge]_vars

Covers(o, p) == o.start <= p.start /\ p.end <= o.end

IntervalsOf(ps) == {[start |-> ps[i].start, end |-> ps[i].end] : i \in 1..Len(ps)}

\* C11: the output intervals of one sub-group, ordered by start, are pairwise
\* non-overlapping and non-touching: each starts strictly after the one
\* before it ends (also when a long period contains a shorter one that is
\* followed by a period inside the long one).
C11_OutputsDisjoint ==
    pc = "merged" =>
        \A r \in 1..(Len(merged) - 1) : merged[r + 1].start > merged[r].end

\* C12: merging the output of merge gives back the same set of intervals,
\* none of them merged further.
C12_Idempotent ==
    pc = "merged" => IntervalsOf(merge(merged)) = IntervalsOf(merged)

-----------------------------------------------------------------------------
(* Reduction of a batch: partition by (group key, price vector), merge each *)
(* sub-group (sections 4.3 and 4.4 of the design)                           *)

MaxRecords == 2

OUTPUT_COLUMN_ORDER ==
    <<"KundeType", "PrisElement", "Bruger", "OverliggendeNet", "Rabat",
      "ChargeOwner", "ValidFrom", "ValidTo">>

\* the categorical columns of a row: the group key is built from them
GroupKeyColumns == Range(OUTPUT_COLUMN_ORDER) \ {"ValidFrom", "ValidTo"}

GroupKeys ==
    {[c \in GroupKeyColumns |-> IF c = d THEN "y" ELSE "x"] : d \in {"none", "ChargeOwner"}}

\* 24 hourly slots; the vectors differ from the flat one in a single slot
PriceVectors ==
    {[s \in 1..24 |-> IF s = d THEN 1 ELSE 0] : d \in {0, 1, 24}}

PricedPeriods ==
    [key : GroupKeys, prices : PriceVectors, start : 0..MaxTime, end : 0..MaxTime]

\* faulty variant: periods of one group key are merged whatever their prices
SameSubGroupKeyOnly(p, q) == p.key = q.key

SameSubGroup(p, q) == p.key = q.key /\ p.prices = q.prices

SubGroup(recs, i) == SelectSeq(recs, LAMBDA q : SameSubGroup(recs[i], q))

\* the first record of each sub-group stands for it
Leaders(recs) ==
    {i \in 1..Len(recs) : \A j \in 1..(i - 1) : ~SameSubGroup(recs[i], recs[j])}

reduce(recs) ==
    UNION {{[key |-> recs[i].key, prices |-> recs[i].prices,
             start |-> o.start, end |-> o.end, mergedCount |-> o.mergedCount]
               : o \in Range(merge(SubGroup(recs, i)))} : i \in Leaders(recs)}

InitReduce ==
    /\ FindIdle
    /\ ClassifyIdle
    /\ ConfigIdle
    /\ MergeIdle
    /\ ServiceIdle
    /\ row = <<>>
    /\ pc = "reduce"
    /\ records \in SeqsUpTo({p \in PricedPeriods : p.start < p.end}, MaxRecords)
    /\ reduced = {}

Reduce ==
    /\ pc = "reduce"
    /\ reduced' = reduce(records)
    /\ pc' = "reduced"
    /\ UNCHANGED <<row, findVars, classifyVars, configVars, mergeVars, records, serviceVars>>

NextReduce == Reduce

SpecReduce == InitReduce /\ [][NextReduce]_vars

RECURSIVE SumCounts(_)
SumCounts(rows) ==
    IF rows = {} THEN 0
    ELSE LET o == CHOOSE x \in rows : TRUE
         IN  o.mergedCount + SumCounts(rows \ {o})

\* C13: periods are folded into one output row only when they have the same
\* group key and the same value in each of the 24 price slots: every output
\* row spans only time that input periods of its own key and prices cover,
\* the merge counts of the rows of a key and price vector add up to the input
\* periods of that key and vector, and two adjacent or overlapping periods
\* of one group key that differ in a slot end up in separate rows.
C13_VectorSensitive ==
    pc = "reduced" =>
        /\ \A o \in reduced : \A t \in o.start..(o.end - 1) :
               \E i \in 1..Len(records) :
                   /\ records[i].key = o.key /\ records[i].prices = o.prices
                   /\ records[i].start <= t /\ t < records[i].end
        /\ \A i \in 1..Len(records) :
               /\ \E o \in reduced :
                      /\ o.key = records[i].key /\ o.prices = records[i].prices
                      /\ Covers(o, records[i])
               /\ SumCounts({o \in reduced : o.key = records[i].key
                                               /\ o.prices = records[i].prices})
                    = Len(SelectSeq(records, LAMBDA q : q.key = records[i].key
                                                        /\ q.prices = records[i].prices))
        /\ \A i, j \in 1..Len(records) :
               (/\ records[i].key = records[j].key
                /\ \E s \in 1..24 : records[i].prices[s] # records[j].prices[s])
               => \E oi, oj \in reduced :
                      /\ oi # oj
                      /\ oi.prices = records[i].prices /\ Covers(oi, records[i])
                      /\ oj.prices = records[j].prices /\ Covers(oj, records[j])

\* two periods of one group key that touch and differ in one price slot
C13_Witness ==
    /\ pc = "reduced"
    /\ \E i, j \in 1..Len(records) :
           /\ records[i].key = records[j].key
           /\ records[i].end = records[j].start
           /\ Cardinality({s \in 1..24 : records[i].prices[s] # records[j].prices[s]}) = 1
    /\ Cardinality(reduced) = 2

-----------------------------------------------------------------------------
(* Fetching, the pipeline of tariff_pipeline_main.py and the main of        *)
(* Reach_EnergiDataService.py.  A file is "absent", "old" (written by an    *)
(* earlier run and readable), "unreadable", "new" (written by this run) or  *)
(* "partial" (a write of this run that did not finish).  The directory of   *)
(* parquet_path exists or can be created.                                   *)

FileExists(f) == f # "absent"
Readable(f) == f \in {"old", "new"}

\* faulty variant: a cached file is used whatever use_cached says
UsesCacheIfPresent(u, f) == FileExists(f)

\* Reach_EnergiDataService.py line 35
UsesCache(u, f) == u /\ FileExists(f)

\* the rows a CSV can hold: with or without the code columns
CsvRows ==
    Rows \cup {[c \in RowColumns \cup {"ChargeTypeCode", "ChargeType"} |->
                  IF c \in RowColumns THEN r[c]
                  ELSE IF c = "ChargeTypeCode" THEN x ELSE NaN]
                : r \in Rows, x \in {NaN, <<"b">>}}

InitService ==
    /\ FindIdle
    /\ ClassifyIdle
    /\ ConfigIdle
    /\ MergeIdle
    /\ ReduceIdle
    /\ row = <<>>
    /\ pc = "fetch"
    /\ caller \in {"fetch_datahub_pricelist", "pipeline", "reach"}
    /\ use_cached \in (IF caller = "reach" THEN {TRUE} ELSE BOOLEAN)
    /\ parquet_file \in {"absent", "old", "unreadable"}
    /\ parquet_before = parquet_file
    /\ csv_file \in (IF caller = "pipeline" THEN {"absent", "old", "unreadable"} ELSE {"absent"})
    /\ api_requests = 0
    /\ df = "unset"
    /\ raised = "none"
    /\ pipeline_result = {}
    /\ failed = "none"
    /\ called = {}
    /\ printed = {}
    /\ notes_csv = FALSE

\* Reach_EnergiDataService.py lines 35-41: return the cached file, or go on
\* to the API when it is not used or cannot be read
CachedRead ==
    /\ pc = "fetch"
    /\ IF UsesCache(use_cached, parquet_file) /\ Readable(parquet_file)
       THEN df' = "cached" /\ pc' = "fetched"
       ELSE df' = df /\ pc' = "request"
    /\ UNCHANGED <<row, findVars, classifyVars, configVars, mergeVars, reduceVars,
                   caller, use_cached, fileVars, api_requests, raised,
                   pipeline_result, failed, called, printed, notes_csv>>

\* lines 53-66 and 81-86: the request, its status, the JSON body, the records
Request ==
    /\ pc = "request"
    /\ api_requests' = api_requests + 1
    /\ \E outcome \in {"RequestException", "Exception", "no records", "records"} :
           IF outcome = "records"
           THEN df' = df /\ pc' = "frame"
           ELSE df' = "None" /\ pc' = "fetched"
    /\ UNCHANGED <<row, findVars, classifyVars, configVars, mergeVars, reduceVars,
                   caller, use_cached, fileVars, raised,
                   pipeline_result, failed, called, printed, notes_csv>>

\* lines 69-73 and 84-86: the data frame and its date column
BuildFrame ==
    /\ pc = "frame"
    /\ \/ df' = df /\ pc' = "write"
       \/ df' = "None" /\ pc' = "fetched"
    /\ UNCHANGED <<row, findVars, classifyVars, configVars, mergeVars, reduceVars,
                   caller, use_cached, fileVars, api_requests, raised,
                   pipeline_result, failed, called, printed, notes_csv>>

\* lines 76-79 and 84-86: write_parquet writes the file in place; when it
\* raises, the file is as it was or holds what was written before the error
WriteParquet ==
    /\ pc = "write"
    /\ \/ parquet_file' = "new" /\ df' = "api"
       \/ parquet_file' \in {parquet_file, "partial"} /\ df' = "None"
    /\ pc' = "fetched"
    /\ UNCHANGED <<row, findVars, classifyVars, configVars, mergeVars, reduceVars,
                   caller, use_cached, parquet_before, csv_file, api_requests, raised,
                   pipeline_result, failed, called, printed, notes_csv>>

\* faulty variant: the pipeline goes on whatever the fetch returned
FetchFailedNever(d) == FALSE

\* tariff_pipeline_main.py line 49: df is None
FetchFailed(d) == d = "None"

\* tariff_pipeline_main.py lines 49-66: abort, or call
\* enhanced_categorize_tariff_data on data_dir/RAW_DATA_FILENAME.csv
CheckFetched ==
    /\ pc = "fetched"
    /\ caller = "pipeline"
    /\ IF FetchFailed(df)
       THEN /\ printed' = printed \cup {"Pipeline aborted"}
            /\ called' = called
            /\ pc' = "done"
       ELSE /\ printed' = printed
            /\ called' = called \cup {"enhanced_categorize_tariff_data"}
            /\ pc' = "read_csv"
    /\ UNCHANGED <<row, findVars, classifyVars, configVars, mergeVars, reduceVars,
                   caller, use_cached, fileVars, api_requests, df, raised,
                   pipeline_result, failed, notes_csv>>

\* categorize_tariffs.py lines 91-109: pd.read_csv(file_path)
ReadCsv ==
    /\ pc = "read_csv"
    /\ IF Readable(csv_file)
       THEN row' \in CsvRows /\ failed' = failed /\ pc' = "csv"
       ELSE row' = row /\ failed' = "read" /\ pc' = "except"
    /\ UNCHANGED <<findVars, classifyVars, configVars, mergeVars, reduceVars,
                   caller, use_cached, fileVars, api_requests, df, raised,
                   pipeline_result, called, printed, notes_csv>>

\* the columns generate_comprehensive_stats and create_analysis_sheets index
AnalysisColumns == {"ChargeTypeCode", "Note", "Description"}

\* categorize_tariffs.py lines 135-138 (179-271): statistics and analysis
\* sheets; indexing a column the frame lacks raises KeyError
Analyse ==
    /\ pc = "categorized"
    /\ caller = "pipeline"
    /\ IF AnalysisColumns \subseteq DOMAIN row
       THEN failed' = failed /\ pc' = "analysed"
       ELSE failed' = "analysis" /\ pc' = "except"
    /\ UNCHANGED <<row, findVars, classifyVars, configVars, mergeVars, reduceVars,
                   caller, use_cached, fileVars, api_requests, df, raised,
                   pipeline_result, called, printed, notes_csv>>

\* categorize_tariffs.py lines 142-164: the Excel workbook is written or not
SaveExcel ==
    /\ pc = "analysed"
    /\ \/ failed' = failed /\ pc' = "saved"
       \/ failed' = "save" /\ pc' = "except"
    /\ UNCHANGED <<row, findVars, classifyVars, configVars, mergeVars, reduceVars,
                   caller, use_cached, fileVars, api_requests, df, raised,
                   pipeline_result, called, printed, notes_csv>>

\* categorize_tariffs.py lines 166-171
ReturnResult ==
    /\ pc = "saved"
    /\ pipeline_result' = {"df", "stats", "output_path", "analysis"}
    /\ pc' = "result"
    /\ UNCHANGED <<row, findVars, classifyVars, configVars, mergeVars, reduceVars,
                   caller, use_cached, fileVars, api_requests, df, raised,
                   failed, called, printed, notes_csv>>

\* faulty variant: the handler catches a failed read only
CaughtReadOnly(f) == f = "read"

\* categorize_tariffs.py line 173: except Exception catches every failure
\* of the steps in the try block
Caught(f) == TRUE

\* categorize_tariffs.py lines 173-177
Except ==
    /\ pc = "except"
    /\ IF Caught(failed)
       THEN pipeline_result' = {"error"} /\ raised' = raised /\ pc' = "result"
       ELSE pipeline_result' = pipeline_result /\ raised' = "Exception" /\ pc' = "done"
    /\ UNCHANGED <<row, findVars, classifyVars, configVars, mergeVars, reduceVars,
                   caller, use_cached, fileVars, api_requests, df,
                   failed, called, printed, notes_csv>>

\* tariff_pipeline_main.py lines 68-99
Finish ==
    /\ pc = "result"
    /\ printed' = printed \cup (IF "error" \in pipeline_result
                                 THEN {"Categorization failed"}
                                 ELSE {"PIPELINE COMPLETED SUCCESSFULLY", "FILES CREATED"})
    /\ pc' = "done"
    /\ UNCHANGED <<row, findVars, classifyVars, configVars, mergeVars, reduceVars,
                   caller, use_cached, fileVars, api_requests, df, raised,
                   pipeline_result, failed, called, notes_csv>>

\* Reach_EnergiDataService.py line 142: df.to_pandas() on what fetch returned;
\* None has no such method
ToPandas ==
    /\ pc = "fetched"
    /\ caller = "reach"
    /\ IF df = "None"
       THEN raised' = "AttributeError" /\ pc' = "done"
       ELSE raised' = raised /\ pc' = "to_pandas"
    /\ UNCHANGED <<row, findVars, classifyVars, configVars, mergeVars, reduceVars,
                   caller, use_cached, fileVars, api_requests, df,
                   pipeline_result, failed, called, printed, notes_csv>>

\* Reach_EnergiDataService.py lines 143-151 (88-133): the notes analysis is
\* None when the frame lacks 'ChargeOwner' or 'Note'
AnalyzeNotes ==
    /\ pc = "to_pandas"
    /\ IF df # "None"
       THEN /\ called' = called \cup {"analyze_notes_by_chargeowner"}
            /\ \E notes_analysis \in {"None", "frame"} :
                   notes_csv' = (notes_analysis # "None")
       ELSE called' = called /\ notes_csv' = notes_csv
    /\ pc' = "done"
    /\ UNCHANGED <<row, findVars, classifyVars, configVars, mergeVars, reduceVars,
                   caller, use_cached, fileVars, api_requests, df, raised,
                   pipeline_result, failed, printed>>

NextService ==
    \/ CachedRead \/ Request \/ BuildFrame \/ WriteParquet
    \/ CheckFetched \/ ReadCsv \/ Convert \/ ApplyKundetype \/ ApplyTariftype
    \/ Analyse \/ SaveExcel \/ ReturnResult \/ Except \/ Finish
    \/ ToPandas \/ AnalyzeNotes

SpecService == InitService /\ [][NextService]_vars

-----------------------------------------------------------------------------
(* Claims on fetching and the pipeline *)

FetchReturned == df # "unset"
FetchSucceeded == df \in {"cached", "api"}

\* C14: in the pipeline, enhanced_categorize_tariff_data is called only
\* after the fetch returned a dataset; a run whose fetch returned None ends
\* aborted without that call; 'PIPELINE COMPLETED SUCCESSFULLY' is printed
\* only when the fetch succeeded and the result has no 'error' key.
C14_CategorizeOnlyAfterFetch ==
    caller = "pipeline" =>
        /\ "enhanced_categorize_tariff_data" \in called => FetchSucceeded
        /\ (pc = "done" /\ df = "None") =>
               /\ "Pipeline aborted" \in printed
               /\ "enhanced_categorize_tariff_data" \notin called
        /\ "PIPELINE COMPLETED SUCCESSFULLY" \in printed =>
               /\ FetchSucceeded
               /\ pipeline_result # {}
               /\ "error" \notin pipeline_result

\* a pipeline run that completed, and nothing was categorized before the fetch
C14_Witness ==
    /\ caller = "pipeline"
    /\ pc = "done"
    /\ "PIPELINE COMPLETED SUCCESSFULLY" \in printed
    /\ df = "api"

\* C15: whenever the fetch of a pipeline run succeeds, the CSV that the
\* categorization reads has been written by the fetch of that run, so a run
\* that starts with no data files and gets records from the API (and whose
\* categorization steps do not fail on their own) completes successfully and
\* every file listed under 'FILES CREATED' exists.
C15_CsvWrittenByFetch ==
    caller = "pipeline" =>
        /\ ("enhanced_categorize_tariff_data" \in called /\ FetchSucceeded)
               => csv_file = "new"
        /\ (pc = "done" /\ df = "api" /\ parquet_before = "absent"
                /\ failed \notin {"analysis", "save"})
               => "PIPELINE COMPLETED SUCCESSFULLY" \in printed
        /\ "FILES CREATED" \in printed
               => FileExists(csv_file) /\ FileExists(parquet_file)

\* C16: with use_cached true and a readable parquet file the call returns
\* the cached data, sends no API request and leaves the file as it was; a
\* request is sent exactly when use_cached is false, the file does not
\* exist, or reading it fails.
C16_CacheOrRequest ==
    FetchReturned =>
        /\ (use_cached /\ Readable(parquet_before)) =>
               /\ df = "cached"
               /\ api_requests = 0
               /\ parquet_file = parquet_before
        /\ api_requests \in {0, 1}
        /\ api_requests = 1 <=>
               (~use_cached \/ ~FileExists(parquet_before) \/ ~Readable(parquet_before))

\* a cached return, and a request sent because use_cached was false although
\* a readable file was there
C16_Witness ==
    /\ caller = "fetch_datahub_pricelist"
    /\ pc = "fetched"
    /\ Readable(parquet_before)
    /\ \/ use_cached /\ df = "cached"
       \/ ~use_cached /\ api_requests = 1

\* C17: fetch_datahub_pricelist never raises and reports a failure as None;
\* whenever it returns None a parquet file that existed before is unchanged,
\* and a dataset from the API is returned only once it is in the file.
C17_FailureLeavesCache ==
    (FetchReturned /\ pc = "fetched") =>
        /\ raised = "none"
        /\ df = "None" => parquet_file = parquet_before
        /\ df = "api" => parquet_file = "new"

\* C18: enhanced_categorize_tariff_data lets no exception out; it returns a
\* dict with 'error' exactly when reading, categorizing, analysing or saving
\* failed (an unreadable CSV and a frame without the analysed columns are
\* such failures), and otherwise the four result keys with both labels set
\* on the row.
C18_ErrorDictOrLabelledRows ==
    /\ caller = "pipeline" => raised = "none"
    /\ failed # "none" => pc \in {"except", "result", "done"}
    /\ pc \in {"result", "done"} /\ "enhanced_categorize_tariff_data" \in called =>
           /\ pipeline_result = {"error"} <=> failed # "none"
           /\ ~Readable(csv_file) => pipeline_result = {"error"}
           /\ (row # <<>> /\ ~(AnalysisColumns \subseteq DOMAIN row))
                  => pipeline_result = {"error"}
           /\ failed = "none" =>
                  /\ pipeline_result = {"df", "stats", "output_path", "analysis"}
                  /\ Kundetype # None
                  /\ Tariftype # None

\* a call that failed while saving, after the row was labelled
C18_Witness ==
    /\ pc = "result"
    /\ failed = "save"
    /\ pipeline_result = {"error"}
    /\ Kundetype # None

\* C19: the main of Reach_EnergiDataService.py does not raise when the fetch
\* returns None; it then neither calls analyze_notes_by_chargeowner nor
\* writes the notes CSV.
C19_ReachMainHandlesNone ==
    (caller = "reach" /\ df = "None") =>
        /\ raised = "none"
        /\ "analyze_notes_by_chargeowner" \notin called
        /\ ~notes_csv

====
